---------------------------- MODULE Spec2Model ----------------------------
(***************************************************************************)
(* A model of the Scene & Shot Planner (src/streamlit_app.py): the URL     *)
(* codec (encode_scenes / decode_scenes), the scene factory (make_scene),  *)
(* the export helpers (build_lines, scenes_to_jpeg, scenes_to_pdf) and the *)
(* Streamlit script run that ties them together.                           *)
(*                                                                         *)
(* Python values are tagged pairs <<tag, payload>>: x[1] is the type of x  *)
(* and x[2] its content.  Text is a sequence of Unicode code points, bytes *)
(* are a sequence of 0..255.                                               *)
(* A raised exception is the value Exc(name).                              *)
(***************************************************************************)
EXTENDS Integers, Sequences, FiniteSets, TLC

VARIABLES
    pc,         \* position inside the running program
    kind,       \* the class of the input drawn for a function call
    arg,        \* the input of the function under call
    ret,        \* the value the last call returned, or Exc(..) when it raised
    url,        \* st.query_params["data"]: the token in the browser URL
    scenes,     \* st.session_state.scenes (Absent before the first run)
    widgets,    \* Streamlit's widget state: key -> value, for rendered widgets
    event,      \* the interaction that triggered the current script run
    crashed,    \* the exception that ended the last script run, or NoExc
    budget      \* user interactions left in the session

vars == <<pc, kind, arg, ret, url, scenes, widgets, event, crashed, budget>>

----------------------------------------------------------------------------
(* Python values *)

PyNone == <<"None">>
PyBool(b) == <<"bool", b>>
PyInt(n) == <<"int", n>>
PyStr(s) == <<"str", s>>
PyBytes(b) == <<"bytes", b>>
PyList(xs) == <<"list", xs>>
\* a dict keeps its insertion order: a sequence of <<key text, value>>
PyDict(kvs) == <<"dict", kvs>>
\* an UploadedFile handed out by st.file_uploader
PyFile(n) == <<"file", n>>
Exc(name) == <<"exc", name>>

IsExc(x) == x[1] = "exc"

\* x when computing x raised, F(x) otherwise: a raise skips what follows it
Then(x, F(_)) == IF IsExc(x) THEN x ELSE F(x)

HasKey(d, k) == \E i \in 1..Len(d[2]) : d[2][i][1] = k

\* d[k] for a key that is present
Get(d, k) == d[2][CHOOSE i \in 1..Len(d[2]) : d[2][i][1] = k][2]

\* d[k] = x: in place when the key is there, appended when it is not
SetItem(d, k, x) ==
    IF HasKey(d, k)
    THEN PyDict([i \in 1..Len(d[2]) |->
                    IF d[2][i][1] = k THEN <<k, x>> ELSE d[2][i]])
    ELSE PyDict(Append(d[2], <<k, x>>))

\* {key: value for key, value in d.items() if key != k}
DropKey(d, k) == PyDict(SelectSeq(d[2], LAMBDA kv : kv[1] # k))

\* Python's ==: dicts compare as mappings, whatever their key order
RECURSIVE PyEq(_, _)
PyEq(a, b) ==
    IF a[1] # b[1] THEN FALSE
    ELSE IF a[1] = "list"
    THEN /\ Len(a[2]) = Len(b[2])
         /\ \A i \in 1..Len(a[2]) : PyEq(a[2][i], b[2][i])
    ELSE IF a[1] = "dict"
    THEN /\ Len(a[2]) = Len(b[2])
         /\ \A i \in 1..Len(a[2]) :
               /\ HasKey(b, a[2][i][1])
               /\ PyEq(a[2][i][2], Get(b, a[2][i][1]))
    ELSE a = b

\* iter(x): the items a for loop walks, or the TypeError it raises
Iterate(x) ==
    CASE x[1] = "list" -> x
      [] x[1] = "dict" -> PyList([i \in 1..Len(x[2]) |-> PyStr(x[2][i][1])])
      [] x[1] = "str" -> PyList([i \in 1..Len(x[2]) |-> PyStr(<<x[2][i]>>)])
      [] OTHER -> Exc("TypeError")

\* the first exception in a sequence of results, or NoExc
NoExc == <<"ok">>
FirstExc(rs) ==
    IF \E i \in 1..Len(rs) : IsExc(rs[i])
    THEN rs[CHOOSE i \in 1..Len(rs) :
                IsExc(rs[i]) /\ \A j \in 1..(i - 1) : ~IsExc(rs[j])]
    ELSE NoExc

\* the list of the results, or the first exception among them
Collect(rs) == IF FirstExc(rs) # NoExc THEN FirstExc(rs) ELSE PyList(rs)

\* the concatenation of a sequence of sequences (halving, not one by one)
RECURSIVE ConcatRange(_, _, _)
ConcatRange(ss, lo, hi) ==
    IF lo > hi THEN <<>>
    ELSE IF lo = hi THEN ss[lo]
    ELSE LET mid == (lo + hi) \div 2
         IN  ConcatRange(ss, lo, mid) \o ConcatRange(ss, mid + 1, hi)

Concat(ss) == ConcatRange(ss, 1, Len(ss))

\* sep.join(parts)
Join(sep, parts) ==
    Concat([i \in 1..(2 * Len(parts)) |->
               IF i % 2 = 1 THEN (IF i = 1 THEN <<>> ELSE sep)
               ELSE parts[i \div 2]])

----------------------------------------------------------------------------
(* The text constants of the program *)

K_id == <<105, 100>>                                        \* "id"
K_title == <<116, 105, 116, 108, 101>>                      \* "title"
K_hook == <<104, 111, 111, 107>>                            \* "hook"
K_problem == <<112, 114, 111, 98, 108, 101, 109>>           \* "problem"
K_conflict == <<99, 111, 110, 102, 108, 105, 99, 116>>      \* "conflict"
K_resolution == <<114, 101, 115, 111, 108, 117, 116, 105, 111, 110>>
K_shots == <<115, 104, 111, 116, 115>>                      \* "shots"
K_type == <<116, 121, 112, 101>>                            \* "type"
K_alt_type == <<97, 108, 116, 95, 116, 121, 112, 101>>      \* "alt_type"
K_description == <<100, 101, 115, 99, 114, 105, 112, 116, 105, 111, 110>>
K_file == <<102, 105, 108, 101>>                            \* "file"

Wide == <<87, 105, 100, 101>>                               \* "Wide"
MediumShot == <<77, 101, 100, 105, 117, 109, 32, 83, 104, 111, 116>>
CloseUp == <<67, 108, 111, 115, 101, 8209, 85, 112>>        \* "Close-Up", U+2011

\* SHOT_CYCLE = ["Wide", "Medium Shot", "Close-Up", None]
SHOT_CYCLE == <<PyStr(Wide), PyStr(MediumShot), PyStr(CloseUp), PyNone>>


----------------------------------------------------------------------------
(* json.dumps: the default encoder (ensure_ascii, separators ", " and ": ") *)

HexDigit(d) == IF d < 10 THEN 48 + d ELSE 87 + d

\* \uXXXX, four lower-case hexadecimal digits
EscapeU(c) ==
    <<92, 117, HexDigit((c \div 4096) % 16), HexDigit((c \div 256) % 16),
      HexDigit((c \div 16) % 16), HexDigit(c % 16)>>

\* one character of a string literal
EscapeChar(c) ==
    CASE c = 34 -> <<92, 34>>
      [] c = 92 -> <<92, 92>>
      [] c = 10 -> <<92, 110>>
      [] c = 13 -> <<92, 114>>
      [] c = 9 -> <<92, 116>>
      [] c = 8 -> <<92, 98>>
      [] c = 12 -> <<92, 102>>
      [] c >= 32 /\ c <= 126 -> <<c>>
      [] c > 65535 ->
            EscapeU(55296 + ((c - 65536) \div 1024))
                \o EscapeU(56320 + ((c - 65536) % 1024))
      [] OTHER -> EscapeU(c)

DumpStr(s) ==
    <<34>> \o Concat([i \in 1..Len(s) |-> EscapeChar(s[i])]) \o <<34>>

RECURSIVE DumpNat(_)
DumpNat(n) ==
    IF n < 10 THEN <<48 + n>> ELSE Append(DumpNat(n \div 10), 48 + (n % 10))

DumpInt(n) == IF n < 0 THEN <<45>> \o DumpNat(0 - n) ELSE DumpNat(n)

\* json.dumps(x) for a value made of None, bool, int, str, list and dict
RECURSIVE JsonDumps(_)
JsonDumps(x) ==
    CASE x[1] = "None" -> <<110, 117, 108, 108>>
      [] x[1] = "bool" ->
            IF x[2] THEN <<116, 114, 117, 101>> ELSE <<102, 97, 108, 115, 101>>
      [] x[1] = "int" -> DumpInt(x[2])
      [] x[1] = "str" -> DumpStr(x[2])
      [] x[1] = "list" ->
            <<91>> \o Join(<<44, 32>>, [i \in 1..Len(x[2]) |-> JsonDumps(x[2][i])])
                \o <<93>>
      [] x[1] = "dict" ->
            <<123>>
                \o Join(<<44, 32>>,
                        [i \in 1..Len(x[2]) |->
                            DumpStr(x[2][i][1]) \o <<58, 32>> \o JsonDumps(x[2][i][2])])
                \o <<125>>

----------------------------------------------------------------------------
(* json.loads: the default decoder.  A parse step returns                  *)
(* [ok |-> TRUE, val |-> value, p |-> next position] or NoParse.  Numbers    *)
(* with a fraction or an exponent, NaN and Infinity are not modelled.      *)

NoParse == [ok |-> FALSE]
Parsed(x, p) == [ok |-> TRUE, val |-> x, p |-> p]

IsWs(c) == c \in {32, 9, 10, 13}
IsDigit(c) == c >= 48 /\ c <= 57

RECURSIVE SkipWs(_, _)
SkipWs(s, p) == IF p <= Len(s) /\ IsWs(s[p]) THEN SkipWs(s, p + 1) ELSE p

\* s[p..] starts with the word w
StartsWith(s, p, w) ==
    /\ p + Len(w) - 1 <= Len(s)
    /\ \A i \in 1..Len(w) : s[p + i - 1] = w[i]

HexVal(c) ==
    CASE c >= 48 /\ c <= 57 -> c - 48
      [] c >= 97 /\ c <= 102 -> c - 87
      [] c >= 65 /\ c <= 70 -> c - 55
      [] OTHER -> -1

\* the code unit of the four hexadecimal digits at s[p..p+3], or -1
Hex4(s, p) ==
    IF p + 3 <= Len(s) /\ \A i \in 0..3 : HexVal(s[p + i]) >= 0
    THEN 4096 * HexVal(s[p]) + 256 * HexVal(s[p + 1])
            + 16 * HexVal(s[p + 2]) + HexVal(s[p + 3])
    ELSE -1

\* the character a one-letter escape stands for, or -1
Unescape(c) ==
    CASE c = 34 -> 34
      [] c = 92 -> 92
      [] c = 47 -> 47
      [] c = 98 -> 8
      [] c = 102 -> 12
      [] c = 110 -> 10
      [] c = 114 -> 13
      [] c = 116 -> 9
      [] OTHER -> -1

\* py_scanstring (strict): s[p] is the first character after the opening quote
RECURSIVE ScanString(_, _, _)
ScanString(s, p, acc) ==
    IF p > Len(s) THEN NoParse
    ELSE IF s[p] = 34 THEN Parsed(acc, p + 1)
    ELSE IF s[p] < 32 THEN NoParse
    ELSE IF s[p] # 92 THEN ScanString(s, p + 1, Append(acc, s[p]))
    ELSE IF p + 1 > Len(s) THEN NoParse
    ELSE IF s[p + 1] # 117
    THEN IF Unescape(s[p + 1]) < 0 THEN NoParse
         ELSE ScanString(s, p + 2, Append(acc, Unescape(s[p + 1])))
    ELSE LET hi == Hex4(s, p + 2)
             lo == IF StartsWith(s, p + 6, <<92, 117>>) THEN Hex4(s, p + 8) ELSE -1
         IN  IF hi < 0 THEN NoParse
             ELSE IF hi >= 55296 /\ hi <= 56319 /\ lo >= 56320 /\ lo <= 57343
             THEN ScanString(s, p + 12,
                             Append(acc, 65536 + (hi - 55296) * 1024 + (lo - 56320)))
             ELSE ScanString(s, p + 6, Append(acc, hi))

\* the end of the run of digits that starts at p
RECURSIVE DigitsEnd(_, _)
DigitsEnd(s, p) == IF p <= Len(s) /\ IsDigit(s[p]) THEN DigitsEnd(s, p + 1) ELSE p

RECURSIVE DigitsVal(_, _, _)
DigitsVal(s, p, q) ==
    IF q <= p THEN 0 ELSE 10 * DigitsVal(s, p, q - 1) + (s[q - 1] - 48)

\* NUMBER_RE: -?(0|[1-9][0-9]*)
ScanNumber(s, p) ==
    LET neg == p <= Len(s) /\ s[p] = 45
        d == IF neg THEN p + 1 ELSE p
        e == IF d <= Len(s) /\ s[d] = 48 THEN d + 1 ELSE DigitsEnd(s, d)
    IN  IF e = d THEN NoParse
        ELSE Parsed(PyInt(IF neg THEN 0 - DigitsVal(s, d, e) ELSE DigitsVal(s, d, e)), e)

RECURSIVE ScanValue(_, _)
RECURSIVE ScanArray(_, _, _)
RECURSIVE ScanObject(_, _, _)

\* the str of a scanned string literal
StringValue(r) == IF r.ok THEN Parsed(PyStr(r.val), r.p) ELSE NoParse

\* scan_once: the value that starts at p
ScanValue(s, p) ==
    IF p > Len(s) THEN NoParse
    ELSE CASE s[p] = 34 -> StringValue(ScanString(s, p + 1, <<>>))
           [] s[p] = 123 ->
                LET q == SkipWs(s, p + 1)
                IN  IF q <= Len(s) /\ s[q] = 125 THEN Parsed(PyDict(<<>>), q + 1)
                    ELSE ScanObject(s, q, PyDict(<<>>))
           [] s[p] = 91 ->
                LET q == SkipWs(s, p + 1)
                IN  IF q <= Len(s) /\ s[q] = 93 THEN Parsed(PyList(<<>>), q + 1)
                    ELSE ScanArray(s, q, <<>>)
           [] s[p] = 110 ->
                IF StartsWith(s, p, <<110, 117, 108, 108>>)
                THEN Parsed(PyNone, p + 4) ELSE NoParse
           [] s[p] = 116 ->
                IF StartsWith(s, p, <<116, 114, 117, 101>>)
                THEN Parsed(PyBool(TRUE), p + 4) ELSE NoParse
           [] s[p] = 102 ->
                IF StartsWith(s, p, <<102, 97, 108, 115, 101>>)
                THEN Parsed(PyBool(FALSE), p + 5) ELSE NoParse
           [] OTHER -> ScanNumber(s, p)

\* JSONArray after the item r: "]" closes the list, "," leads to the next item
ArrayItem(s, acc, r) ==
    IF ~r.ok THEN NoParse
    ELSE LET q == SkipWs(s, r.p)
         IN  IF q > Len(s) THEN NoParse
             ELSE IF s[q] = 93 THEN Parsed(PyList(Append(acc, r.val)), q + 1)
             ELSE IF s[q] # 44 THEN NoParse
             ELSE ScanArray(s, SkipWs(s, q + 1), Append(acc, r.val))

\* JSONArray: p is at the next item, acc holds the items read so far
ScanArray(s, p, acc) == ArrayItem(s, acc, ScanValue(s, p))

\* JSONObject after a pair: d holds the pairs read so far, q is at "}" or ","
ObjectNext(s, q, d) ==
    IF q > Len(s) THEN NoParse
    ELSE IF s[q] = 125 THEN Parsed(d, q + 1)
    ELSE IF s[q] # 44 THEN NoParse
    ELSE ScanObject(s, SkipWs(s, q + 1), d)

\* JSONObject after the value r of the key k
ObjectValue(s, acc, k, r) ==
    IF ~r.ok THEN NoParse
    ELSE ObjectNext(s, SkipWs(s, r.p), SetItem(acc, k.val, r.val))

\* JSONObject after the key k: a colon, then the value
ObjectKey(s, acc, k) ==
    IF ~k.ok THEN NoParse
    ELSE LET c == SkipWs(s, k.p)
         IN  IF c > Len(s) \/ s[c] # 58 THEN NoParse
             ELSE ObjectValue(s, acc, k, ScanValue(s, SkipWs(s, c + 1)))

\* JSONObject: p is at the next key, acc holds the pairs read so far
ScanObject(s, p, acc) ==
    IF p > Len(s) \/ s[p] # 34 THEN NoParse
    ELSE ObjectKey(s, acc, ScanString(s, p + 1, <<>>))

\* the document r stands for when nothing but white space follows it
Document(s, r) ==
    IF r.ok /\ SkipWs(s, r.p) = Len(s) + 1 THEN r.val
    ELSE Exc("JSONDecodeError")

\* json.loads(text): the value, or the JSONDecodeError
JsonLoads(s) == Document(s, ScanValue(s, SkipWs(s, 1)))

----------------------------------------------------------------------------
(* str.encode() and bytes.decode(): UTF-8 *)

\* the bytes of one code point, or <<>> for a lone surrogate (UnicodeEncodeError)
Utf8Char(c) ==
    CASE c < 128 -> <<c>>
      [] c < 2048 -> <<192 + (c \div 64), 128 + (c % 64)>>
      [] c >= 55296 /\ c <= 57343 -> <<>>
      [] c < 65536 ->
            <<224 + (c \div 4096), 128 + ((c \div 64) % 64), 128 + (c % 64)>>
      [] OTHER ->
            <<240 + (c \div 262144), 128 + ((c \div 4096) % 64),
              128 + ((c \div 64) % 64), 128 + (c % 64)>>

Utf8Encode(s) ==
    IF \A i \in 1..Len(s) : s[i] < 128 THEN PyBytes(s)
    ELSE IF \E i \in 1..Len(s) : Utf8Char(s[i]) = <<>>
    THEN Exc("UnicodeEncodeError")
    ELSE PyBytes(Concat([i \in 1..Len(s) |-> Utf8Char(s[i])]))

IsCont(b) == b >= 128 /\ b <= 191

\* how many bytes the sequence led by b takes, 0 when b cannot lead one
Utf8Width(b) ==
    CASE b < 128 -> 1
      [] b >= 194 /\ b <= 223 -> 2
      [] b >= 224 /\ b <= 239 -> 3
      [] b >= 240 /\ b <= 244 -> 4
      [] OTHER -> 0

\* a well-formed sequence starts at i
Utf8WellFormed(b, i) ==
    LET w == Utf8Width(b[i])
    IN  /\ w > 0
        /\ i + w - 1 <= Len(b)
        /\ \A j \in 1..(w - 1) : IsCont(b[i + j])
        /\ b[i] = 224 => b[i + 1] >= 160
        /\ b[i] = 237 => b[i + 1] <= 159
        /\ b[i] = 240 => b[i + 1] >= 144
        /\ b[i] = 244 => b[i + 1] <= 143

\* the continuation byte at i belongs to a sequence that starts before it
Utf8Covered(b, i) ==
    \E j \in 1..3 :
        /\ i - j >= 1
        /\ Utf8Width(b[i - j]) > j
        /\ \A k \in 1..(j - 1) : IsCont(b[i - k])

Utf8CodePoint(b, i) ==
    CASE Utf8Width(b[i]) = 1 -> b[i]
      [] Utf8Width(b[i]) = 2 -> (b[i] - 192) * 64 + (b[i + 1] - 128)
      [] Utf8Width(b[i]) = 3 ->
            (b[i] - 224) * 4096 + (b[i + 1] - 128) * 64 + (b[i + 2] - 128)
      [] OTHER ->
            (b[i] - 240) * 262144 + (b[i + 1] - 128) * 4096
                + (b[i + 2] - 128) * 64 + (b[i + 3] - 128)

\* the code points of the sequences that start at the places listed
CodePoints(b, starts) == PyStr([k \in 1..Len(starts) |-> Utf8CodePoint(b, starts[k])])

Utf8Decode(b) ==
    IF \A i \in 1..Len(b) : b[i] < 128 THEN PyStr(b)
    ELSE IF \A i \in 1..Len(b) :
                IF IsCont(b[i]) THEN Utf8Covered(b, i) ELSE Utf8WellFormed(b, i)
    THEN CodePoints(b, SelectSeq([i \in 1..Len(b) |-> i], LAMBDA i : ~IsCont(b[i])))
    ELSE Exc("UnicodeDecodeError")

----------------------------------------------------------------------------
(* zlib.compress and zlib.decompress (RFC 1950, RFC 1951).  The deflate    *)
(* stream is written as stored blocks, the one block type whose content    *)
(* is the data itself; Huffman-coded blocks are not modelled, and a stream *)
(* that carries one is outside the inputs drawn below.                     *)

\* the sum of f[lo..hi] modulo m, by halving; the items are below 2^16
RECURSIVE SumMod(_, _, _, _)
SumMod(f, lo, hi, m) ==
    IF lo > hi THEN 0
    ELSE IF lo = hi THEN f[lo] % m
    ELSE IF lo + 3 = hi THEN (f[lo] + f[lo + 1] + f[lo + 2] + f[hi]) % m
    ELSE LET mid == (lo + hi) \div 2
         IN  (SumMod(f, lo, mid, m) + SumMod(f, mid + 1, hi, m)) % m

\* Adler-32 as <<s2, s1>>, the high and the low 16 bits
Adler32(d) ==
    LET n == Len(d)
        s1 == (1 + SumMod(d, 1, n, 65521)) % 65521
        s2 == (n + SumMod([i \in 1..n |-> ((n - i + 1) * d[i]) % 65521], 1, n, 65521))
                    % 65521
    IN  <<s2, s1>>

\* the four bytes of a checksum, most significant first
BigEndian(a) == <<a[1] \div 256, a[1] % 256, a[2] \div 256, a[2] % 256>>

AdlerBytes(d) == BigEndian(Adler32(d))

\* one stored block holding d[lo..hi]
StoredBlock(d, lo, hi, final) ==
    LET len == hi - lo + 1
    IN  <<IF final THEN 1 ELSE 0, len % 256, len \div 256,
          (65535 - len) % 256, (65535 - len) \div 256>> \o SubSeq(d, lo, hi)

zlib_compress(d) ==
    LET n == Len(d)
        nb == IF n = 0 THEN 1 ELSE (n + 65534) \div 65535
        hiOf(k) == IF k = nb THEN n ELSE 65535 * k
    IN  <<120, 156>>
            \o Concat([k \in 1..nb |-> StoredBlock(d, 65535 * (k - 1) + 1, hiOf(k), k = nb)])
            \o AdlerBytes(d)

RECURSIVE Inflate(_, _, _)

\* after a block that ends before q: the next block, or the checksum of
\* the output when the block was the final one
BlockEnd(b, q, final, out) ==
    IF ~final THEN Inflate(b, q, out)
    ELSE IF q + 3 <= Len(b) /\ SubSeq(b, q, q + 3) = AdlerBytes(out)
    THEN PyBytes(out)
    ELSE Exc("zlib.error")

\* inflate from the block header at p; acc is the output so far
Inflate(b, p, acc) ==
    IF p + 4 > Len(b) THEN Exc("zlib.error")
    ELSE LET final == b[p] % 2 = 1
             btype == (b[p] \div 2) % 4
             len == b[p + 1] + 256 * b[p + 2]
             nlen == b[p + 3] + 256 * b[p + 4]
         IN  IF btype # 0 \/ len + nlen # 65535 \/ p + 4 + len > Len(b)
             THEN Exc("zlib.error")
             ELSE BlockEnd(b, p + 5 + len, final, acc \o SubSeq(b, p + 5, p + 4 + len))

\* bytes after the end of the stream are ignored, as zlib.decompress does
zlib_decompress(b) ==
    IF Len(b) < 2 THEN Exc("zlib.error")
    ELSE IF \/ b[1] % 16 # 8
            \/ b[1] \div 16 > 7
            \/ (256 * b[1] + b[2]) % 31 # 0
            \/ (b[2] \div 32) % 2 = 1
    THEN Exc("zlib.error")
    ELSE Inflate(b, 3, <<>>)

----------------------------------------------------------------------------
(* base64.urlsafe_b64encode and base64.urlsafe_b64decode *)

\* the character of a 6-bit value in the URL-safe alphabet
B64Char(x) ==
    CASE x < 26 -> 65 + x
      [] x < 52 -> 97 + (x - 26)
      [] x < 62 -> 48 + (x - 52)
      [] x = 62 -> 45
      [] OTHER -> 95

urlsafe_b64encode(b) ==
    LET n == Len(b)
        at(i) == IF i <= n THEN b[i] ELSE 0
        ch(i) ==
            LET k == 3 * ((i - 1) \div 4)
                j == (i - 1) % 4
            IN  CASE j = 0 -> B64Char(at(k + 1) \div 4)
                  [] j = 1 -> B64Char((at(k + 1) % 4) * 16 + at(k + 2) \div 16)
                  [] j = 2 ->
                        IF k + 2 > n THEN 61
                        ELSE B64Char((at(k + 2) % 16) * 4 + at(k + 3) \div 64)
                  [] OTHER -> IF k + 3 > n THEN 61 ELSE B64Char(at(k + 3) % 64)
    IN  [i \in 1..(4 * ((n + 2) \div 3)) |-> ch(i)]

\* the 6-bit value of a character, -1 when it is in neither alphabet:
\* the translation - to + and _ to / leaves + and / themselves in place
B64Val(c) ==
    CASE c >= 65 /\ c <= 90 -> c - 65
      [] c >= 97 /\ c <= 122 -> c - 97 + 26
      [] c >= 48 /\ c <= 57 -> c - 48 + 52
      [] c = 45 \/ c = 43 -> 62
      [] c = 95 \/ c = 47 -> 63
      [] OTHER -> -1

\* binascii.a2b_base64 without strict_mode: characters outside the
\* alphabet are skipped, and a completed pad sequence ends the parse
\* the bytes of the data characters d; padded tells that a completed pad
\* sequence ended the parse, without one the data must fill whole quads
B64Bytes(d, padded) ==
    LET m == Len(d)
        x(i) == B64Val(d[i])
        byte(i) ==
            LET k == 4 * ((i - 1) \div 3)
                j == (i - 1) % 3
            IN  CASE j = 0 -> x(k + 1) * 4 + x(k + 2) \div 16
                  [] j = 1 -> (x(k + 2) % 16) * 16 + x(k + 3) \div 4
                  [] OTHER -> (x(k + 3) % 4) * 64 + x(k + 4)
        extra == IF m % 4 = 0 THEN 0 ELSE (m % 4) - 1
    IN  IF ~padded /\ m % 4 # 0 THEN Exc("binascii.Error")
        ELSE PyBytes([i \in 1..(3 * (m \div 4) + extra) |-> byte(i)])

\* f up to the first pad character of stops, the data characters alone
B64Data(f, stops) ==
    LET stop == IF stops = {} THEN Len(f) + 1
                ELSE CHOOSE j \in stops : \A k \in stops : j <= k
    IN  B64Bytes(SelectSeq(SubSeq(f, 1, stop - 1), LAMBDA c : c # 61), stops # {})

\* pads holds the places of "=" in f.  A pad completes the sequence when
\* it stands fourth in its quad, or third right after another pad
B64Padded(f, pads) ==
    LET quad(j) == (j - 1 - Cardinality({i \in pads : i < j})) % 4
    IN  B64Data(f, {j \in pads : quad(j) = 3 \/ (quad(j) = 2 /\ (j - 1) \in pads)})

\* f holds the characters of the alphabet and the pads, the rest skipped
B64Filtered(f) == B64Padded(f, {i \in 1..Len(f) : f[i] = 61})

urlsafe_b64decode(s) ==
    IF \E i \in 1..Len(s) : s[i] > 127 THEN Exc("ValueError")
    ELSE B64Filtered(SelectSeq(s, LAMBDA c : c = 61 \/ B64Val(c) >= 0))

----------------------------------------------------------------------------
(* URL-based storage helpers *)

\* json.dumps accepts x: no file object anywhere in it
RECURSIVE IsJsonable(_)
IsJsonable(x) ==
    CASE x[1] \in {"None", "bool", "int", "str"} -> TRUE
      [] x[1] = "list" -> \A i \in 1..Len(x[2]) : IsJsonable(x[2][i])
      [] x[1] = "dict" -> \A i \in 1..Len(x[2]) : IsJsonable(x[2][i][2])
      [] OTHER -> FALSE

\* {k: v for k, v in sh.items() if k != "file"}
StripShot(sh) ==
    IF sh[1] # "dict" THEN Exc("AttributeError") ELSE DropKey(sh, K_file)

\* {**sc, "shots": [... for sh in sc["shots"]]}
StripScene(sc) ==
    IF sc[1] # "dict" THEN Exc("TypeError")
    ELSE IF ~HasKey(sc, K_shots) THEN Exc("KeyError")
    ELSE Then(Iterate(Get(sc, K_shots)), LAMBDA it :
         Then(Collect([i \in 1..Len(it[2]) |-> StripShot(it[2][i])]), LAMBDA shs :
         SetItem(sc, K_shots, shs)))

strip_files(obj) ==
    Then(Iterate(obj), LAMBDA it :
    Collect([i \in 1..Len(it[2]) |-> StripScene(it[2][i])]))

\* the token of a JSON-serialisable value:
\* base64.urlsafe_b64encode(zlib.compress(json.dumps(x).encode())).decode()
TokenOf(x) ==
    PyStr(urlsafe_b64encode(zlib_compress(Utf8Encode(JsonDumps(x))[2])))

encode_scenes(obj) ==
    Then(strip_files(obj), LAMBDA stripped :
    IF ~IsJsonable(stripped) THEN Exc("TypeError") ELSE TokenOf(stripped))

\* a faulty variant, for the sensitivity of C1: the file key is not put back
SetDefaultFileSkipped(sh) ==
    IF sh[1] # "dict" THEN Exc("AttributeError") ELSE sh

\* sh.setdefault("file", None)
SetDefaultFile(sh) ==
    IF sh[1] # "dict" THEN Exc("AttributeError")
    ELSE IF HasKey(sh, K_file) THEN sh
    ELSE SetItem(sh, K_file, PyNone)

\* for sh in sc.get("shots", []): sh.setdefault("file", None)
RestoreScene(sc) ==
    IF sc[1] # "dict" THEN Exc("AttributeError")
    ELSE IF ~HasKey(sc, K_shots) THEN sc
    ELSE Then(Iterate(Get(sc, K_shots)), LAMBDA it :
         Then(Collect([i \in 1..Len(it[2]) |-> SetDefaultFile(it[2][i])]), LAMBDA shs :
         \* the shots of a list are changed in place, the items of any other
         \* iterable are temporaries
         IF Get(sc, K_shots)[1] = "list" THEN SetItem(sc, K_shots, shs) ELSE sc))

\* the body of the try block of decode_scenes(token), token a str: the value
\* returned, or the exception raised
DecodeBody(token) ==
    Then(urlsafe_b64decode(token[2]), LAMBDA bin :
    Then(zlib_decompress(bin[2]), LAMBDA raw :
    Then(Utf8Decode(raw[2]), LAMBDA data :
    Then(JsonLoads(data[2]), LAMBDA loaded :
    Then(Iterate(loaded), LAMBDA it :
    Then(Collect([i \in 1..Len(it[2]) |-> RestoreScene(it[2][i])]), LAMBDA scs :
    IF loaded[1] = "list" THEN scs ELSE loaded))))))

\* x, or h when computing x raised: try: x except Exception: h
Catch(x, h) == IF IsExc(x) THEN h ELSE x

\* a faulty variant, for the sensitivity of C2: no except clause
DecodeUncaught(token) == DecodeBody(token)

\* try: ... except Exception: return []
decode_scenes(token) == Catch(DecodeBody(token), PyList(<<>>))

----------------------------------------------------------------------------
(* Scene/shot factory *)

Empty == PyStr(<<>>)

\* a faulty variant, for the sensitivity of C8: no default size for the
\* shot without a type
MakeShotNoDefault(i, ty) ==
    PyDict(<<
        <<K_id, PyInt(i)>>,
        <<K_type, ty>>,
        <<K_alt_type, PyNone>>,
        <<K_description, Empty>>,
        <<K_file, PyNone>> >>)

\* one item of the shots list of make_scene, i its 1-based place
make_shot(i, ty) ==
    PyDict(<<
        <<K_id, PyInt(i)>>,
        <<K_type, ty>>,
        <<K_alt_type, IF ty = PyNone THEN PyStr(Wide) ELSE PyNone>>,
        <<K_description, Empty>>,
        <<K_file, PyNone>> >>)

make_scene(idx) ==
    PyDict(<<
        <<K_id, PyInt(idx + 1)>>,
        <<K_title, Empty>>,
        <<K_hook, Empty>>,
        <<K_problem, Empty>>,
        <<K_conflict, Empty>>,
        <<K_resolution, Empty>>,
        <<K_shots, PyList([i \in 1..Len(SHOT_CYCLE) |-> make_shot(i, SHOT_CYCLE[i])])>> >>)

----------------------------------------------------------------------------
(* Export helpers: JPEG + PDF *)

\* bool(x)
Truthy(x) ==
    CASE x[1] = "None" -> FALSE
      [] x[1] = "bool" -> x[2]
      [] x[1] = "int" -> x[2] # 0
      [] x[1] \in {"str", "list", "dict"} -> Len(x[2]) > 0
      [] OTHER -> TRUE

\* the text an f-string puts for {x}, x a str, an int or None
Fmt(x) ==
    CASE x[1] = "str" -> x[2]
      [] x[1] = "int" -> DumpInt(x[2])
      [] OTHER -> <<78, 111, 110, 101>>

HasKeys(d, ks) == d[1] = "dict" /\ \A k \in ks : HasKey(d, k)

\* a faulty variant, for the sensitivity of C7: the type alone is shown
ShotLineTypeOnly(sh) ==
    IF ~HasKeys(sh, {K_id, K_type, K_alt_type, K_description}) THEN Exc("KeyError")
    ELSE PyStr(<<32, 32, 32, 32, 83, 104, 111, 116, 32>> \o Fmt(Get(sh, K_id))
                \o <<32, 40>> \o Fmt(Get(sh, K_type)) \o <<41, 32, 8211, 32>>
                \o Fmt(Get(sh, K_description)))

\* f"    Shot {sh['id']} ({stype}) - {sh['description']}", the dash U+2013
ShotLine(sh) ==
    IF ~HasKeys(sh, {K_id, K_type, K_alt_type, K_description}) THEN Exc("KeyError")
    ELSE LET stype == IF Truthy(Get(sh, K_type)) THEN Get(sh, K_type)
                      ELSE Get(sh, K_alt_type)
         IN  PyStr(<<32, 32, 32, 32, 83, 104, 111, 116, 32>> \o Fmt(Get(sh, K_id))
                    \o <<32, 40>> \o Fmt(stype) \o <<41, 32, 8211, 32>>
                    \o Fmt(Get(sh, K_description)))

\* the lines of one scene: heading, four beats, one per shot, one empty
SceneLines(sc) ==
    IF ~HasKeys(sc, {K_id, K_title, K_hook, K_problem, K_conflict, K_resolution, K_shots})
    THEN Exc("KeyError")
    ELSE Then(Iterate(Get(sc, K_shots)), LAMBDA it :
         Then(Collect([i \in 1..Len(it[2]) |-> ShotLine(it[2][i])]), LAMBDA shs :
         PyList(
            <<PyStr(<<83, 99, 101, 110, 101, 32>> \o Fmt(Get(sc, K_id))
                        \o <<58, 32>> \o Fmt(Get(sc, K_title))),
              PyStr(<<32, 32, 72, 111, 111, 107, 58, 32>> \o Fmt(Get(sc, K_hook))),
              PyStr(<<32, 32, 80, 114, 111, 98, 108, 101, 109, 58, 32>>
                        \o Fmt(Get(sc, K_problem))),
              PyStr(<<32, 32, 67, 111, 110, 102, 108, 105, 99, 116, 58, 32>>
                        \o Fmt(Get(sc, K_conflict))),
              PyStr(<<32, 32, 82, 101, 115, 111, 108, 117, 116, 105, 111, 110, 58, 32>>
                        \o Fmt(Get(sc, K_resolution)))>>
            \o shs[2] \o <<Empty>>)))

build_lines(obj) ==
    Then(Iterate(obj), LAMBDA it :
    Then(Collect([i \in 1..Len(it[2]) |-> SceneLines(it[2][i])]), LAMBDA per :
    PyList(Concat([i \in 1..Len(per[2]) |-> per[2][i][2]]))))

\* font.getlength(l) of the default font: one fixed advance per character
font_getlength(l) == 6 * Len(l[2])

\* lh = font.getbbox('Hg')[3] + 4
line_height == 11 + 4

\* max(xs) of a non-empty sequence of numbers
MaxOf(xs) == xs[CHOOSE i \in 1..Len(xs) : \A j \in 1..Len(xs) : xs[i] >= xs[j]]

\* the raster drawn by scenes_to_jpeg: its size and each line's place
scenes_to_jpeg(obj) ==
    Then(build_lines(obj), LAMBDA lines :
    \* max() of an empty sequence
    IF Len(lines[2]) = 0 THEN Exc("ValueError")
    ELSE <<"jpeg",
           [w |-> MaxOf([i \in 1..Len(lines[2]) |-> font_getlength(lines[2][i])]) + 20,
            h |-> line_height * Len(lines[2]) + 20,
            text |-> [i \in 1..Len(lines[2]) |->
                         [x |-> 10, y |-> 10 + (i - 1) * line_height,
                          line |-> lines[2][i][2]]]]>>)

\* the same raster as the only page of a PDF
scenes_to_pdf(obj) == Then(scenes_to_jpeg(obj), LAMBDA jpeg : <<"pdf", <<jpeg[2]>>>>)

----------------------------------------------------------------------------
(* Inputs *)

MaxScenes == 2
MaxIdx == 49

Absent == <<"absent">>
Intro == <<73, 110, 116, 114, 111>>                         \* "Intro"

\* field texts: empty, plain, with a quote and a backslash, with characters
\* outside ASCII and a line break
Texts == <<<<>>, Intro, <<97, 34, 98, 92>>, <<233, 8211, 10>>>>

ShotSizes == <<Wide, MediumShot, CloseUp>>

TextAt(n) == PyStr(Texts[(n % Len(Texts)) + 1])

\* the shots of a scene filled in: descriptions, and the size picked for the
\* shot that has no fixed type
FilledShots(shs, n) ==
    PyList([k \in 1..Len(shs[2]) |->
        LET d == SetItem(shs[2][k], K_description, TextAt(n + k))
        IN  IF Get(d, K_type) = PyNone
            THEN SetItem(d, K_alt_type, PyStr(ShotSizes[(n % 3) + 1]))
            ELSE d])

\* scene number i as the planner holds it after the user filled it in
FilledScene(i, n) ==
    LET s0 == make_scene(i - 1)
        s1 == SetItem(s0, K_title, TextAt(n))
        s2 == SetItem(s1, K_hook, TextAt(n + 1))
        s3 == SetItem(s2, K_problem, TextAt(n + 2))
        s4 == SetItem(s3, K_conflict, TextAt(n + 3))
        s5 == SetItem(s4, K_resolution, TextAt(n \div 4))
    IN  SetItem(s5, K_shots, FilledShots(Get(s5, K_shots), n))

FilledProject(len, n) == PyList([i \in 1..len |-> FilledScene(i, n + i)])

\* projects the planner builds: every file is None
Projects == {FilledProject(len, n) : len \in 0..MaxScenes, n \in 0..11}

\* a scene record that no make_scene call produces: its own id, two shots,
\* the file key first
OddScene ==
    PyDict(<<
        <<K_shots, PyList(<<
            PyDict(<<<<K_file, PyNone>>, <<K_description, TextAt(2)>>,
                     <<K_id, PyInt(9)>>, <<K_type, PyNone>>,
                     <<K_alt_type, PyStr(CloseUp)>>>>),
            PyDict(<<<<K_id, PyInt(0)>>, <<K_type, PyStr(Wide)>>,
                     <<K_alt_type, PyNone>>, <<K_description, Empty>>,
                     <<K_file, PyNone>>>>)>>)>>,
        <<K_id, PyInt(-7)>>,
        <<K_title, TextAt(3)>>,
        <<K_hook, Empty>>,
        <<K_problem, Empty>>,
        <<K_conflict, Empty>>,
        <<K_resolution, TextAt(1)>> >>)

OddProjects == {PyList(<<OddScene>>), PyList(<<OddScene, make_scene(0)>>)}

\* well-formed JSON that is not a list of Scene records
Foreign ==
    { PyDict(<<>>),
      PyDict(<<<<K_id, PyInt(1)>>>>),
      PyStr(<<>>),
      PyStr(Intro),
      PyInt(5),
      PyNone,
      PyBool(TRUE),
      PyList(<<PyInt(1)>>),
      PyList(<<PyStr(Intro)>>),
      PyList(<<PyList(<<>>)>>),
      PyList(<<PyDict(<<>>)>>),
      PyList(<<PyDict(<<<<K_id, PyInt(1)>>, <<K_title, Empty>>>>)>>),
      PyList(<<PyDict(<<<<K_shots, PyInt(5)>>>>)>>),
      PyList(<<PyDict(<<<<K_shots, PyList(<<PyInt(1)>>)>>>>)>>),
      PyList(<<PyDict(<<<<K_shots, PyList(<<PyDict(<<>>)>>)>>>>)>>),
      PyList(<<SetItem(make_scene(0), K_shots, PyList(<<PyDict(<<>>)>>))>>) }

\* strings that base64 decoding rejects: one data character, broken
\* padding, a character outside ASCII
NotBase64 ==
    { <<65>>, <<33, 33, 33>>, <<65, 66, 61, 67>>, <<65, 61, 66, 61>>,
      <<101, 74, 119>>, <<101, 74, 119, 66, 65>>, <<233>>, <<61, 61, 61, 61, 65>> }

\* bytes that are no zlib stream: empty after decoding, too short, a bad
\* header, a preset dictionary, a stored block cut short, a wrong length
\* complement, a wrong checksum
NoStream ==
    { <<0>>, <<120>>, <<1, 2, 3, 4, 5, 6, 7, 8>>,
      <<120, 157, 1, 0, 0, 255, 255, 0, 0, 0, 1>>,
      <<120, 187, 1, 0, 0, 255, 255, 0, 0, 0, 1>>,
      <<120, 156>>, <<120, 156, 1, 0, 0, 255, 255>>,
      <<120, 156, 1, 2, 0, 253, 255, 91>>,
      <<120, 156, 1, 2, 0, 255, 255, 91, 93, 1, 21, 0, 185>>,
      <<120, 156, 1, 2, 0, 253, 255, 91, 93, 1, 21, 0, 186>>,
      <<120, 156, 0, 1, 0, 254, 255, 91>> }

\* streams that inflate to something json.loads or bytes.decode rejects
NotJson ==
    { <<>>, <<91>>, <<91, 49, 44, 93>>, <<123, 49, 58, 50, 125>>, <<91, 93, 93>>,
      <<34, 10, 34>>, <<34, 92, 120, 34>>, <<110, 117, 108>>, <<45>>,
      <<91, 34, 255, 34, 93>>, <<91, 34, 195, 34, 93>>, <<91, 34, 169, 34, 93>>,
      <<91, 34, 224, 128, 128, 34, 93>> }

\* where a token of length n is cut
Cuts(n) == {k \in {1, 2, 3, 4, 8, n \div 2, n - 4, n - 3, n - 2, n - 1} : 0 < k /\ k < n}

\* the token with its character at p changed to another of the alphabet
Flip(s, p) == [s EXCEPT ![p] = IF s[p] = 65 THEN 66 ELSE 65]

\* where a character of a token of length n is changed: behind the zlib and
\* block headers, which the first four characters hold, and before the last
\* group of four, whose characters may carry bits the decoder drops
Flips(n) == {9, n \div 2, n - 5}

\* the token with one character outside the alphabet put at p
Stray(s, p, c) == SubSeq(s, 1, p - 1) \o <<c>> \o SubSeq(s, p, Len(s))

----------------------------------------------------------------------------
(* The codec under call: a project is encoded, a token is decoded.  The    *)
(* token is the planner's own, one a third party packed from other JSON,   *)
(* one damaged on the way, or no token at all.                             *)

AppIdle ==
    /\ scenes = Absent
    /\ widgets = <<>>
    /\ event = "none"
    /\ crashed = NoExc
    /\ budget = 0

InitCodec ==
    /\ AppIdle
    /\ ret = PyNone
    /\ \/ /\ pc = "project" /\ kind = "valid" /\ url = Empty
          /\ arg \in Projects \cup OddProjects
       \/ /\ pc = "json" /\ kind = "schema" /\ url = Empty
          /\ arg \in Foreign
       \/ /\ pc = "token" /\ kind = "empty" /\ arg = PyNone
          /\ url = Empty
       \/ /\ pc = "token" /\ kind = "b64" /\ arg = PyNone
          /\ \E s \in NotBase64 : url = PyStr(s)
       \/ /\ pc = "token" /\ kind = "bytes" /\ arg = PyNone
          /\ \E b \in NoStream : url = PyStr(urlsafe_b64encode(b))
       \/ /\ pc = "token" /\ kind = "notjson" /\ arg = PyNone
          /\ \E d \in NotJson : url = PyStr(urlsafe_b64encode(zlib_compress(d)))

\* url = encode_scenes(project)
Encode ==
    /\ pc = "project"
    /\ url' = encode_scenes(arg)
    /\ pc' = "token"
    /\ UNCHANGED <<kind, arg, ret, scenes, widgets, event, crashed, budget>>

\* a third party packs its own JSON the way encode_scenes packs a project
Pack ==
    /\ pc = "json"
    /\ url' = TokenOf(arg)
    /\ pc' = "token"
    /\ UNCHANGED <<kind, arg, ret, scenes, widgets, event, crashed, budget>>

\* the planner's token is damaged before it comes back
Damage ==
    /\ pc = "token"
    /\ kind = "valid"
    /\ \/ \E k \in Cuts(Len(url[2])) :
            /\ url' = PyStr(SubSeq(url[2], 1, k))
            /\ kind' = "truncated"
       \/ \E p \in Flips(Len(url[2])) :
            /\ url' = PyStr(Flip(url[2], p))
            /\ kind' = "bytes"
       \/ \E p \in {1, Len(url[2]) \div 2, Len(url[2]) + 1}, c \in {33, 10, 32} :
            /\ url' = PyStr(Stray(url[2], p, c))
            /\ kind' = "stray"
    /\ UNCHANGED <<pc, arg, ret, scenes, widgets, event, crashed, budget>>

\* ret = decode_scenes(url)
Decode ==
    /\ pc = "token"
    /\ ret' = decode_scenes(url)
    /\ pc' = "decoded"
    /\ UNCHANGED <<kind, arg, url, scenes, widgets, event, crashed, budget>>

NextCodec == Encode \/ Pack \/ Damage \/ Decode

SpecCodec == InitCodec /\ [][NextCodec]_vars

\* every shot of the project has the file key, and it holds None
FilesNull(p) ==
    \A i \in 1..Len(p[2]) :
        \A k \in 1..Len(Get(p[2][i], K_shots)[2]) :
            LET sh == Get(p[2][i], K_shots)[2][k]
            IN  HasKey(sh, K_file) /\ Get(sh, K_file) = PyNone

\* C1: a project whose files are all None comes back from
\* decode_scenes(encode_scenes(P)) equal to P, field for field; the empty
\* project comes back empty
C1_RoundTrip ==
    (pc = "decoded" /\ kind = "valid" /\ FilesNull(arg))
        => /\ PyEq(ret, arg)
           /\ PyEq(arg, ret)
           /\ arg = PyList(<<>>) => ret = PyList(<<>>)

\* a project of MaxScenes filled-in scenes made the round trip
C1_Witness ==
    /\ pc = "decoded" /\ kind = "valid"
    /\ FilesNull(arg)
    /\ Len(arg[2]) = MaxScenes
    /\ Get(arg[2][1], K_title) = PyStr(<<97, 34, 98, 92>>)
    /\ PyEq(ret, arg)

C3_SchemaMismatchEmpty ==
    (pc = "decoded" /\ kind = "schema") => ret = PyList(<<>>)

----------------------------------------------------------------------------
(* The factory and the export helpers under call *)

InitExport ==
    /\ AppIdle
    /\ url = Empty
    /\ ret = PyNone
    /\ \/ /\ pc = "idx" /\ kind = "index"
          /\ \E n \in 0..MaxIdx : arg = PyInt(n)
       \/ /\ pc = "project" /\ kind = "valid"
          /\ arg \in Projects

MakeScene ==
    /\ pc = "idx"
    /\ ret' = make_scene(arg[2])
    /\ pc' = "made"
    /\ UNCHANGED <<kind, arg, url, scenes, widgets, event, crashed, budget>>

BuildLines ==
    /\ pc = "project"
    /\ ret' = build_lines(arg)
    /\ pc' = "lines"
    /\ UNCHANGED <<kind, arg, url, scenes, widgets, event, crashed, budget>>

ToJpeg ==
    /\ pc = "project"
    /\ ret' = scenes_to_jpeg(arg)
    /\ pc' = "jpeg"
    /\ UNCHANGED <<kind, arg, url, scenes, widgets, event, crashed, budget>>

ToPdf ==
    /\ pc = "project"
    /\ ret' = scenes_to_pdf(arg)
    /\ pc' = "pdf"
    /\ UNCHANGED <<kind, arg, url, scenes, widgets, event, crashed, budget>>

NextExport == MakeScene \/ BuildLines \/ ToJpeg \/ ToPdf

SpecExport == InitExport /\ [][NextExport]_vars

\* C6: scenes_to_jpeg and scenes_to_pdf of the empty project return output
\* and do not raise
C6_EmptyRenders ==
    (pc \in {"jpeg", "pdf"} /\ arg = PyList(<<>>)) => ~IsExc(ret)

\* the type a shot shows: its type when it has one, else its alt_type
EffectiveType(sh) ==
    IF Get(sh, K_type) # PyNone THEN Get(sh, K_type) ELSE Get(sh, K_alt_type)

\* line k of the ten lines the claim gives scene sc
ClaimedLine(sc, k) ==
    LET sh == Get(sc, K_shots)[2][k - 5]
    IN  CASE k = 1 -> <<83, 99, 101, 110, 101, 32>> \o DumpInt(Get(sc, K_id)[2])
                        \o <<58, 32>> \o Get(sc, K_title)[2]
          [] k = 2 -> <<32, 32, 72, 111, 111, 107, 58, 32>> \o Get(sc, K_hook)[2]
          [] k = 3 -> <<32, 32, 80, 114, 111, 98, 108, 101, 109, 58, 32>>
                        \o Get(sc, K_problem)[2]
          [] k = 4 -> <<32, 32, 67, 111, 110, 102, 108, 105, 99, 116, 58, 32>>
                        \o Get(sc, K_conflict)[2]
          [] k = 5 -> <<32, 32, 82, 101, 115, 111, 108, 117, 116, 105, 111, 110, 58, 32>>
                        \o Get(sc, K_resolution)[2]
          [] k = 10 -> <<>>
          [] OTHER -> <<32, 32, 32, 32, 83, 104, 111, 116, 32>>
                        \o DumpInt(Get(sh, K_id)[2]) \o <<32, 40>>
                        \o EffectiveType(sh)[2] \o <<41, 32, 8211, 32>>
                        \o Get(sh, K_description)[2]

\* C7: build_lines of S scenes returns 10*S lines: per scene, in project
\* order, the heading, Hook, Problem, Conflict, Resolution, one line per
\* shot in shot order with its effective type and description, one empty
C7_BuildLines ==
    pc = "lines" =>
        /\ ret[1] = "list"
        /\ Len(ret[2]) = 10 * Len(arg[2])
        /\ \A i \in 1..Len(arg[2]) : \A k \in 1..10 :
              ret[2][10 * (i - 1) + k] = PyStr(ClaimedLine(arg[2][i], k))

C7_Witness ==
    /\ pc = "lines"
    /\ Len(arg[2]) = MaxScenes
    /\ Len(ret[2]) = 10 * MaxScenes
    /\ ret[2][1] = PyStr(<<83, 99, 101, 110, 101, 32, 49, 58, 32>> \o Intro)
    /\ ret[2][10] = Empty

\* C8: make_scene(n) has id n+1, five empty text fields and four shots with
\* ids 1..4, empty descriptions, no files, effective types Wide, Medium
\* Shot, Close-Up, Wide; the fourth has type None and alt_type Wide, the
\* first three have alt_type None
C8_MakeScene ==
    pc = "made" =>
        LET shs == Get(ret, K_shots)[2]
        IN  /\ Get(ret, K_id) = PyInt(arg[2] + 1)
            /\ \A k \in {K_title, K_hook, K_problem, K_conflict, K_resolution} :
                  Get(ret, k) = PyStr(<<>>)
            /\ Len(shs) = 4
            /\ \A i \in 1..4 :
                  /\ Get(shs[i], K_id) = PyInt(i)
                  /\ Get(shs[i], K_description) = PyStr(<<>>)
                  /\ Get(shs[i], K_file) = PyNone
            /\ [i \in 1..4 |-> EffectiveType(shs[i])]
                  = <<PyStr(Wide), PyStr(MediumShot), PyStr(CloseUp), PyStr(Wide)>>
            /\ Get(shs[4], K_type) = PyNone
            /\ Get(shs[4], K_alt_type) = PyStr(Wide)
            /\ \A i \in 1..3 : Get(shs[i], K_alt_type) = PyNone

C8_Witness ==
    /\ pc = "made"
    /\ arg = PyInt(MaxIdx)
    /\ Get(ret, K_id) = PyInt(MaxIdx + 1)
    /\ Len(Get(ret, K_shots)[2]) = 4


----------------------------------------------------------------------------
(* Widgets.  Widget state is a function from widget keys to values; a key   *)
(* is <<name, scene_idx>> or <<name, scene_idx, shot_idx>>.  One script run *)
(* leaves state for the widgets it rendered and for no other.               *)

\* what a keyed input widget returns: its state when it has one, else the
\* value the script passes as default (here always a str or None)
WidgetValue(old, key, default) == IF key \in DOMAIN old THEN old[key] ELSE default

\* x[k], k a str: the item, or the exception raised
Subscript(x, k) ==
    IF x[1] # "dict" THEN Exc("TypeError")
    ELSE IF ~HasKey(x, k) THEN Exc("KeyError")
    ELSE Get(x, k)

\* the object a part of the run works on, the widgets rendered so far, and
\* the exception that stopped the run (NoExc when none did)
Run(v, w, exc) == [v |-> v, w |-> w, exc |-> exc]
Raise(r, e) == [r EXCEPT !.exc = e]

\* the next statement F, skipped when an exception is under way
Do(r, F(_)) == IF r.exc # NoExc THEN r ELSE F(r)

\* a read of d[field] that raises
Check(r, field) ==
    IF IsExc(Subscript(r.v, field)) THEN Raise(r, Subscript(r.v, field)) ELSE r

\* d[field] = x, x the value the widget under key returned
Put(r, field, key, x) == Run(SetItem(r.v, field, x), r.w @@ (key :> x), NoExc)

\* d[field] = st.text_area(label, d[field], key=key)
EditField(old, r, field, key) ==
    IF IsExc(Subscript(r.v, field)) THEN Raise(r, Subscript(r.v, field))
    ELSE Put(r, field, key, WidgetValue(old, key, Get(r.v, field)))

\* shot["alt_type"] = st.selectbox(..., index=[...].index(shot["alt_type"]), key=key)
SelectBox(old, r, key) ==
    IF ~HasKey(r.v, K_alt_type) THEN Raise(r, Exc("KeyError"))
    ELSE IF Get(r.v, K_alt_type) \notin {PyStr(Wide), PyStr(MediumShot), PyStr(CloseUp)}
    THEN Raise(r, Exc("ValueError"))
    ELSE Put(r, K_alt_type, key, WidgetValue(old, key, Get(r.v, K_alt_type)))

\* the body of the shot loop for shot number shot_idx of scene scene_idx
EditShot(old, scene_idx, shot_idx, shot) ==
    Do(Do(Do(Do(Check(Run(shot, <<>>, NoExc), K_id),
       LAMBDA r : Check(r, K_type)),
       LAMBDA r : IF Get(r.v, K_type) = PyNone
                  THEN SelectBox(old, r, <<"stype", scene_idx, shot_idx>>)
                  ELSE r),
       LAMBDA r : EditField(old, r, K_description, <<"sdesc", scene_idx, shot_idx>>)),
       LAMBDA r : Put(r, K_file, <<"sfile", scene_idx, shot_idx>>,
                      WidgetValue(old, <<"sfile", scene_idx, shot_idx>>, PyNone)))

RECURSIVE EditShots(_, _, _, _, _)

\* the shot loop after shot j: r is what its body did
AfterShot(old, scene_idx, j, items, w, r) ==
    IF r.exc # NoExc THEN Run([items EXCEPT ![j] = r.v], w @@ r.w, r.exc)
    ELSE EditShots(old, scene_idx, j + 1, [items EXCEPT ![j] = r.v], w @@ r.w)

\* for shot_idx, shot in enumerate(items), from item j on
EditShots(old, scene_idx, j, items, w) ==
    IF j > Len(items) THEN Run(items, w, NoExc)
    ELSE AfterShot(old, scene_idx, j, items, w,
                   EditShot(old, scene_idx, j - 1, items[j]))

\* the shots of a list are edited in place, the items of another iterable
\* are temporaries
ShotsDone(r, shots, e) ==
    Run(IF shots[1] = "list" THEN SetItem(r.v, K_shots, PyList(e.v)) ELSE r.v,
        r.w @@ e.w, e.exc)

\* for shot_idx, shot in enumerate(scene["shots"])
SceneShots(old, scene_idx, r) ==
    IF IsExc(Subscript(r.v, K_shots)) THEN Raise(r, Subscript(r.v, K_shots))
    ELSE IF IsExc(Iterate(Get(r.v, K_shots))) THEN Raise(r, Exc("TypeError"))
    ELSE ShotsDone(r, Get(r.v, K_shots),
                   EditShots(old, scene_idx, 1, Iterate(Get(r.v, K_shots))[2], <<>>))

\* the body of the scene loop for scene number scene_idx
EditScene(old, scene_idx, scene) ==
    Do(Do(Do(Do(Do(Do(Check(Run(scene, <<>>, NoExc), K_id),
       LAMBDA r : EditField(old, r, K_title, <<"title", scene_idx>>)),
       LAMBDA r : EditField(old, r, K_hook, <<"hook", scene_idx>>)),
       LAMBDA r : EditField(old, r, K_problem, <<"prob", scene_idx>>)),
       LAMBDA r : EditField(old, r, K_conflict, <<"conf", scene_idx>>)),
       LAMBDA r : EditField(old, r, K_resolution, <<"res", scene_idx>>)),
       LAMBDA r : SceneShots(old, scene_idx, r))

RECURSIVE EditScenes(_, _, _, _)

\* the scene loop after scene i: r is what its body did
AfterScene(old, i, items, w, r) ==
    IF r.exc # NoExc THEN Run([items EXCEPT ![i] = r.v], w @@ r.w, r.exc)
    ELSE EditScenes(old, i + 1, [items EXCEPT ![i] = r.v], w @@ r.w)

\* for scene_idx, scene in enumerate(items), from item i on
EditScenes(old, i, items, w) ==
    IF i > Len(items) THEN Run(items, w, NoExc)
    ELSE AfterScene(old, i, items, w, EditScene(old, i - 1, items[i]))

ScenesDone(obj, e) == Run(IF obj[1] = "list" THEN PyList(e.v) ELSE obj, e.w, e.exc)

\* for scene_idx, scene in enumerate(st.session_state.scenes): the project
\* after the loop, the widgets it rendered, the exception that stopped it
EditorLoop(old, obj) ==
    IF IsExc(Iterate(obj)) THEN Run(obj, <<>>, Exc("TypeError"))
    ELSE ScenesDone(obj, EditScenes(old, 1, Iterate(obj)[2], <<>>))

\* st.session_state.scenes.append(make_scene(len(st.session_state.scenes)))
AddScene(obj) ==
    IF obj[1] = "list" THEN PyList(Append(obj[2], make_scene(Len(obj[2]))))
    ELSE Exc("AttributeError")

\* st.session_state.scenes.clear()
ResetAll(obj) ==
    CASE obj[1] = "list" -> PyList(<<>>)
      [] obj[1] = "dict" -> PyDict(<<>>)
      [] OTHER -> Exc("AttributeError")


----------------------------------------------------------------------------
(* The script.  A session opens on a URL; every interaction of the user     *)
(* runs the script once, top to bottom: load, controls, scene editor,       *)
(* persist, download buttons.  An exception ends the run where it is        *)
(* raised; the session and its state stay.                                  *)

MaxEdits == 1

\* projects behind the links a session opens on
Seeds == {FilledProject(1, 1)}

\* JSON a third party packed into a link
Tampered ==
    { PyList(<<PyDict(<<>>)>>), PyStr(<<>>), PyDict(<<>>), PyList(<<make_scene(4)>>) }

\* the widgets the user changes, and what to
Choices ==
    (<<"title", 0>> :> {PyStr(Intro)})
        @@ (<<"stype", 0, 3>> :> {PyStr(CloseUp)})
        @@ (<<"sfile", 0, 0>> :> {PyFile(1), PyNone})

Init ==
    /\ pc = "idle"
    /\ AppIdle
    /\ ret = PyNone
    /\ \/ /\ kind = "none" /\ arg = PyList(<<>>) /\ url = Empty
       \/ /\ kind = "valid" /\ arg \in Seeds /\ url = encode_scenes(arg)
       \/ /\ kind = "garbage" /\ arg = PyList(<<>>)
          /\ url \in {PyStr(<<33, 33, 33>>), PyStr(<<101, 74, 119, 66, 65>>)}
       \/ /\ kind = "foreign" /\ arg \in Tampered /\ url = TokenOf(arg)

\* the browser opens the link: the first run of the session
Open ==
    /\ pc = "idle"
    /\ scenes = Absent
    /\ event' = "open"
    /\ crashed' = NoExc
    /\ pc' = "load"
    /\ UNCHANGED <<kind, arg, ret, url, scenes, widgets, budget>>

\* a button is pressed: Add Scene, Reset All, or one that only reruns the
\* script (the share button)
Click ==
    /\ pc = "idle"
    /\ scenes # Absent
    /\ \E b \in {"add", "reset", "rerun"} :
          /\ (b = "add" /\ scenes[1] = "list") => Len(scenes[2]) < MaxScenes
          /\ event' = b
    /\ crashed' = NoExc
    /\ pc' = "load"
    /\ UNCHANGED <<kind, arg, ret, url, scenes, widgets, budget>>

\* the user changes one widget the last run rendered
Edit ==
    /\ pc = "idle"
    /\ scenes # Absent
    /\ budget < MaxEdits
    /\ \E key \in DOMAIN widgets \cap DOMAIN Choices :
          \E x \in Choices[key] \ {widgets[key]} :
             widgets' = [widgets EXCEPT ![key] = x]
    /\ budget' = budget + 1
    /\ event' = "edit"
    /\ crashed' = NoExc
    /\ pc' = "load"
    /\ UNCHANGED <<kind, arg, ret, url, scenes>>

\* initial_scenes = decode_scenes(initial_token) if initial_token else []
InitialScenes == IF Truthy(url) THEN decode_scenes(url) ELSE PyList(<<>>)

\* a faulty variant, for the sensitivity of C9: every run seeds the project
LoadEveryRun ==
    /\ pc = "load"
    /\ scenes' = InitialScenes
    /\ pc' = "controls"
    /\ UNCHANGED <<kind, arg, ret, url, widgets, event, crashed, budget>>

\* if "scenes" not in st.session_state: st.session_state.scenes = initial_scenes
Load ==
    /\ pc = "load"
    /\ scenes' = IF scenes = Absent THEN InitialScenes ELSE scenes
    /\ pc' = "controls"
    /\ UNCHANGED <<kind, arg, ret, url, widgets, event, crashed, budget>>

\* the exception e ends the run
Crash(e) ==
    /\ crashed' = e
    /\ event' = "none"
    /\ pc' = "idle"

Controls ==
    /\ pc = "controls"
    /\ \E obj \in { CASE event = "add" -> AddScene(scenes)
                      [] event = "reset" -> ResetAll(scenes)
                      [] OTHER -> scenes } :
          IF IsExc(obj)
          THEN Crash(obj) /\ UNCHANGED scenes
          ELSE scenes' = obj /\ pc' = "editor" /\ UNCHANGED <<crashed, event>>
    /\ UNCHANGED <<kind, arg, ret, url, widgets, budget>>

Editor ==
    /\ pc = "editor"
    /\ \E e \in {EditorLoop(widgets, scenes)} :
          /\ scenes' = e.v
          /\ widgets' = e.w
          /\ IF e.exc # NoExc
             THEN Crash(e.exc)
             ELSE pc' = "persist" /\ UNCHANGED <<crashed, event>>
    /\ UNCHANGED <<kind, arg, ret, url, budget>>

\* st.query_params.update(data=encode_scenes(st.session_state.scenes))
Persist ==
    /\ pc = "persist"
    /\ \E token \in {encode_scenes(scenes)} :
          IF IsExc(token)
          THEN Crash(token) /\ UNCHANGED url
          ELSE url' = token /\ pc' = "export" /\ UNCHANGED <<crashed, event>>
    /\ UNCHANGED <<kind, arg, ret, scenes, widgets, budget>>

\* the data of the two download buttons, or the exception making it raised
Downloads(obj) ==
    Then(scenes_to_pdf(obj), LAMBDA pdf :
    Then(scenes_to_jpeg(obj), LAMBDA jpeg : PyList(<<pdf, jpeg>>)))

\* if st.session_state.scenes: the PDF and the JPEG download buttons
Export ==
    /\ pc = "export"
    /\ \E data \in {IF Truthy(scenes) THEN Downloads(scenes) ELSE PyNone} :
          IF IsExc(data)
          THEN crashed' = data /\ UNCHANGED ret
          ELSE ret' = data /\ UNCHANGED crashed
    /\ event' = "none"
    /\ pc' = "idle"
    /\ UNCHANGED <<kind, arg, url, scenes, widgets, budget>>

Next == Open \/ Click \/ Edit \/ Load \/ Controls \/ Editor \/ Persist \/ Export

Spec == Init /\ [][Next]_vars


\* C4: when a cycle ends the URL token is encode_scenes of the live
\* project, and a cycle with no user action leaves the token as it was
C4_TokenTracksProject ==
    [][ /\ (pc # "idle" /\ pc' = "idle") => url' = encode_scenes(scenes')
        /\ (pc = "persist" /\ event = "rerun") => url' = url ]_vars

\* C5: the cycle of a Reset All ends with the live project empty and the
\* encoding of the empty project in the URL
C5_ResetEmpties ==
    [][ (pc # "idle" /\ pc' = "idle" /\ event = "reset")
            => /\ scenes' = PyList(<<>>)
               /\ url' = TokenOf(PyList(<<>>)) ]_vars

\* C9: the first Load of a session seeds the live project from the token
\* of the URL, the empty project when there is none or it is garbage; no
\* later Load changes the live project, whatever the URL holds by then
C9_SeededOnce ==
    [][ pc = "load" =>
            IF scenes = Absent
            THEN /\ scenes' = (IF url = Empty THEN PyList(<<>>) ELSE decode_scenes(url))
                 /\ kind \in {"none", "garbage"} => scenes' = PyList(<<>>)
                 /\ kind = "valid" => PyEq(scenes', arg) /\ PyEq(arg, scenes')
            ELSE scenes' = scenes ]_vars

\* a later run has passed Load with a project the URL no longer decodes to:
\* an uploaded file is in it
C9_Witness ==
    /\ pc = "controls"
    /\ event = "rerun"
    /\ kind \in {"none", "valid"}
    /\ Len(scenes[2]) > 0
    /\ Get(Get(scenes[2][1], K_shots)[2][1], K_file) = PyFile(1)
    /\ scenes # decode_scenes(url)

\* the scene at index i of the project has id i + 1
IdsArePositions(obj) ==
    obj[1] = "list" =>
        \A i \in 1..Len(obj[2]) :
            /\ obj[2][i][1] = "dict"
            /\ HasKey(obj[2][i], K_id)
            /\ Get(obj[2][i], K_id) = PyInt(i)

\* C10: in every state the scene at index i has id i + 1; Add Scene puts
\* one scene behind the others, its id their number plus one, and leaves
\* them as they were
C10_IdIsPosition ==
    [][ /\ IdsArePositions(scenes')
        /\ (pc = "controls" /\ event = "add" /\ pc' = "editor")
              => /\ Len(scenes'[2]) = Len(scenes[2]) + 1
                 /\ SubSeq(scenes'[2], 1, Len(scenes[2])) = scenes[2]
                 /\ Get(scenes'[2][Len(scenes'[2])], K_id) = PyInt(Len(scenes[2]) + 1) ]_vars

====
